---- MODULE Spec2Model ----
(***************************************************************************)
(* State-machine model of the NotebookLM consumer MCP server               *)
(* (src/src/notebooklm_consumer_mcp/server.py) and of the operation client *)
(* it drives (src/src/notebooklm_consumer_mcp/api_client.py).              *)
(*                                                                         *)
(* Three specifications are defined:                                       *)
(*   Spec        the server process: one process-wide client, one tool     *)
(*               call at a time, research_status unrolled poll by poll;    *)
(*   ClientSpec  one ConsumerNotebookLMClient object driven directly by    *)
(*               operations and close() calls;                             *)
(*   CodecSpec   the response codec: _parse_response and                   *)
(*               _extract_rpc_result applied to bounded inputs.            *)
(***************************************************************************)
EXTENDS Integers, Sequences, FiniteSets, TLC

\* ------------------------------------------------------------------ bounds
MaxConns    == 2   \* connections created in one run
MaxWait     == 2   \* largest max_wait argument (seconds)
MaxInterval == 2   \* largest poll_interval argument (seconds)
MaxPollTime == 1   \* longest duration of one poll round trip (seconds)
MaxPolls    == 4   \* polls of one research_status invocation
MaxIds      == 2   \* longest source_ids list
MaxSources  == 1   \* sources a notebook / a research task holds

VARIABLES
    env,      \* NOTEBOOKLM_COOKIES / NOTEBOOKLM_CSRF_TOKEN of the process
    cache,    \* the token cache file written by save_tokens_to_cache
    client,   \* server.py's global _client (Spec); the object under test (ClientSpec)
    nconn,    \* number of httpx.Client connections created so far
    open,     \* connections created and not closed
    pc,       \* position of the running research_status call, "idle" when none runs
    rs,       \* locals of the running research_status call
    last      \* the last tool call (Spec) or client operation (ClientSpec)

vars == <<env, cache, client, nconn, open, pc, rs, last>>

\* ------------------------------------------------------- transport outcomes
\* What one POST can do.  The two errors raise inside the client method
\* (client.post / response.raise_for_status); the others are the shapes of the
\* value _extract_rpc_result yields for the called operation:
\*   no_triplet  None          no wrb.fr triplet for the rpc id in the response
\*   empty       []            a triplet with an empty array
\*   short       [[]]          first element an empty array
\*   hollow      [[[]]]        a source list whose entry is an empty array
\*   no_title    [[[["id"]]]]  a source entry with an id and no title slot
\*   ok          the documented shape
TransportErrors == {"conn_error", "http_error"}
Outcomes ==
    TransportErrors \cup {"no_triplet", "empty", "short", "hollow", "no_title", "ok"}

\* ------------------------------------------------------------ rpc ids
\* The RPC_* class constants, by name.
RPC ==
    [LIST_NOTEBOOKS |-> "wXbhsf",
     GET_NOTEBOOK |-> "rLM1Ne",
     CREATE_NOTEBOOK |-> "CCqFvf",
     RENAME_NOTEBOOK |-> "s0tc2d",
     DELETE_NOTEBOOK |-> "WWINqb",
     ADD_SOURCE |-> "izAoDd",
     CHECK_FRESHNESS |-> "yR9Yof",
     SYNC_DRIVE |-> "FLmJqe",
     START_FAST_RESEARCH |-> "Ljjv0c",
     START_DEEP_RESEARCH |-> "QA9ei",
     POLL_RESEARCH |-> "e3bVqc",
     IMPORT_RESEARCH |-> "LBwxtb",
     CREATE_STUDIO |-> "R7cb6c",
     POLL_STUDIO |-> "gArtLc",
     DELETE_STUDIO |-> "V5N4be"]
QUERY_ENDPOINT ==
    "/_/LabsTailwindUi/data/google.internal.labs.tailwind.orchestration.v1.LabsTailwindOrchestrationService/GenerateFreeFormStreamed"

\* ------------------------------------------------- the client object
\* A ConsumerNotebookLMClient: cookies (an identity), csrf ("" when empty, else
\* where the token came from), http (self._client: 0 for None, else the
\* identity of the httpx.Client).  set = FALSE stands for "no object" (None).
NoClient == [set |-> FALSE, cookies |-> "", csrf |-> "", http |-> 0]

\* _refresh_auth_tokens mutated: a failed fetch is made a second time.
_refresh_auth_tokens_retry(c, fo) ==
    IF fo = "ok"
    THEN [exc |-> FALSE, err |-> "", fetched |-> TRUE, pages |-> <<fo>>,
          c |-> [c EXCEPT !.csrf = "page"]]
    ELSE [exc |-> TRUE,
          err |-> CASE fo = "login_redirect" -> "cookies_expired"
                    [] fo = "bad_status" -> "page_http_status"
                    [] fo = "no_csrf" -> "no_csrf_in_page"
                    [] OTHER -> "transport",
          fetched |-> TRUE, pages |-> <<fo, fo>>, c |-> NoClient]

\* _refresh_auth_tokens: fetch the landing page with a temporary connection
\* and take the CSRF token from it; every other outcome raises ValueError
\* (or the transport's own error).  pages lists the outcomes of the page
\* fetches made.
_refresh_auth_tokens(c, fo) ==
    IF fo = "ok"
    THEN [exc |-> FALSE, err |-> "", fetched |-> TRUE, pages |-> <<fo>>,
          c |-> [c EXCEPT !.csrf = "page"]]
    ELSE [exc |-> TRUE,
          err |-> CASE fo = "login_redirect" -> "cookies_expired"
                    [] fo = "bad_status" -> "page_http_status"
                    [] fo = "no_csrf" -> "no_csrf_in_page"
                    [] OTHER -> "transport",
          fetched |-> TRUE, pages |-> <<fo>>, c |-> NoClient]

\* __init__: no connection is made; the tokens are fetched when none is given.
ConsumerNotebookLMClient(cookies, csrf_token, fo) ==
    LET c == [set |-> TRUE, cookies |-> cookies, csrf |-> csrf_token, http |-> 0]
    IN  IF csrf_token = ""
        THEN _refresh_auth_tokens(c, fo)
        ELSE [exc |-> FALSE, err |-> "", fetched |-> FALSE, pages |-> <<>>, c |-> c]

\* _get_client: create the connection on first use, reuse it afterwards.
\* f is the identity a newly created connection gets.
_get_client(c, f) == IF c.http = 0 THEN [c EXCEPT !.http = f] ELSE c

\* close mutated: the connection is closed but still held.
close_keeps_reference(c) == c

\* close: drop the connection, if any.
close(c) == IF c.http # 0 THEN [c EXCEPT !.http = 0] ELSE c

\* One request: the connection it went through and the operation it named.
Req(c, rpc) == [rpc |-> rpc, conn |-> c.http]

\* send mutated: re-send once after a transport error.
send_with_retry(c, rpc, o) ==
    [reqs |-> IF o \in TransportErrors THEN <<Req(c, rpc), Req(c, rpc)>> ELSE <<Req(c, rpc)>>,
     exc |-> o \in TransportErrors]

\* client.post(url, content=body); response.raise_for_status(): one request,
\* and an exception when the transport fails or the status is an error.
send(c, rpc, o) == [reqs |-> <<Req(c, rpc)>>, exc |-> o \in TransportErrors]

\* The return value of a client method:
\*   raise  an exception left the method       none   None
\*   false / true                              empty  []
\*   value  a non-empty record or list         err_dict / ok_dict  configure_chat's dicts
\* n is the length of a returned list.
Ret(c, reqs, ret, n) == [c |-> c, reqs |-> reqs, ret |-> ret, n |-> n]
Truthy(ret) == ret \in {"true", "value", "ok_dict", "err_dict"}

\* The start of nearly every method: client = self._get_client(), build the
\* request, post it, raise on an error status; the method then maps the
\* extracted result, whose shape is o.
roundtrip(c, f, rpc, o, ret) ==
    LET c2 == _get_client(c, f)
        s  == send(c2, rpc, o)
    IN  Ret(c2, s.reqs, IF s.exc THEN "raise" ELSE ret, 0)

list_notebooks(c, f, o) ==
    roundtrip(c, f, RPC.LIST_NOTEBOOKS, o, IF o = "ok" THEN "value" ELSE "empty")

get_notebook(c, f, o) ==
    roundtrip(c, f, RPC.GET_NOTEBOOK, o,
              CASE o = "no_triplet" -> "none" [] o = "empty" -> "empty" [] OTHER -> "value")

\* create_notebook mutated: result[2] is read without the guard.
create_notebook_unguarded(c, f, o) ==
    roundtrip(c, f, RPC.CREATE_NOTEBOOK, o,
              CASE o = "ok" -> "value" [] o = "no_triplet" -> "raise" [] OTHER -> "none")

create_notebook(c, f, o) ==
    roundtrip(c, f, RPC.CREATE_NOTEBOOK, o, IF o = "ok" THEN "value" ELSE "none")

rename_notebook(c, f, o) ==
    roundtrip(c, f, RPC.RENAME_NOTEBOOK, o, IF o = "no_triplet" THEN "false" ELSE "true")

delete_notebook(c, f, o) ==
    roundtrip(c, f, RPC.DELETE_NOTEBOOK, o, IF o = "no_triplet" THEN "false" ELSE "true")

check_source_freshness(c, f, o) ==
    roundtrip(c, f, RPC.CHECK_FRESHNESS, o, IF o = "ok" THEN "true" ELSE "none")

sync_drive_source(c, f, o) ==
    roundtrip(c, f, RPC.SYNC_DRIVE, o, IF o = "ok" THEN "value" ELSE "none")

SOURCE_TYPE_GOOGLE_DOCS == 1
SOURCE_TYPE_GOOGLE_OTHER == 2

\* can_sync mutated: the type is not looked at.
can_sync_any_type(drive_doc_id, source_type) == drive_doc_id # "None"

\* can_sync = drive_doc_id is not None and source_type in (DOCS, OTHER)
can_sync(drive_doc_id, source_type) ==
    drive_doc_id # "None"
    /\ source_type \in {SOURCE_TYPE_GOOGLE_DOCS, SOURCE_TYPE_GOOGLE_OTHER}

\* _get_source_type_name: 1, 2 and 4 have names, anything else is unknown.
_get_source_type_name(source_type) ==
    CASE source_type = 1 -> "google_docs"
      [] source_type = 2 -> "google_slides_sheets"
      [] source_type = 4 -> "pasted_text"
      [] OTHER -> "unknown"

\* The dict appended for one source, from its metadata: whether metadata[0]
\* holds a document id, and the type code of metadata[4] (0 stands for none).
source_dict(metadata) ==
    LET drive_doc_id == IF metadata.doc THEN "doc" ELSE "None"
    IN  [source_type |-> metadata.type,
         source_type_name |-> _get_source_type_name(metadata.type),
         drive_doc_id |-> drive_doc_id,
         can_sync |-> can_sync(drive_doc_id, metadata.type)]

\* n is the number of sources the notebook of an "ok" response holds.
get_notebook_sources_with_types(c, f, o, n) ==
    LET r == get_notebook(c, f, o)
    IN  IF r.ret = "raise" THEN r
        ELSE IF o = "ok" /\ n > 0 THEN Ret(r.c, r.reqs, "value", n)
        ELSE Ret(r.c, r.reqs, "empty", 0)

\* source_data[0] is read unguarded: an empty source entry raises IndexError.
add_url_source(c, f, o) ==
    roundtrip(c, f, RPC.ADD_SOURCE, o,
              CASE o \in {"no_triplet", "empty", "short"} -> "none"
                [] o = "hollow" -> "raise"
                [] OTHER -> "value")

add_text_source(c, f, o) ==
    roundtrip(c, f, RPC.ADD_SOURCE, o,
              CASE o \in {"no_triplet", "empty", "short"} -> "none"
                [] o = "hollow" -> "raise"
                [] OTHER -> "value")

\* The title fallback names document_name, which is not defined: NameError.
add_drive_source(c, f, o) ==
    roundtrip(c, f, RPC.ADD_SOURCE, o,
              CASE o \in {"no_triplet", "empty", "short"} -> "none"
                [] o \in {"hollow", "no_title"} -> "raise"
                [] OTHER -> "value")

create_audio_overview(c, f, o) ==
    roundtrip(c, f, RPC.CREATE_STUDIO, o,
              IF o \in {"no_triplet", "empty"} THEN "none" ELSE "value")

create_video_overview(c, f, o) ==
    roundtrip(c, f, RPC.CREATE_STUDIO, o,
              IF o \in {"no_triplet", "empty"} THEN "none" ELSE "value")

STUDIO_TYPE_AUDIO == 1
STUDIO_TYPE_VIDEO == 3
\* Type and status codes an artifact of a response may carry.
StudioCodes == {1, 2, 3, 9}

\* The type mapping mutated: every code but audio's is taken for video.
studio_type_name_video_default(type_code) ==
    IF type_code = STUDIO_TYPE_AUDIO THEN "audio" ELSE "video"

\* artifact_type = "audio" if ... else "video" if ... else "unknown"
studio_type_name(type_code) ==
    IF type_code = STUDIO_TYPE_AUDIO THEN "audio"
    ELSE IF type_code = STUDIO_TYPE_VIDEO THEN "video"
    ELSE "unknown"

\* status = "in_progress" if status_code == 1 else "completed" if status_code == 3 else "unknown"
studio_status_name(status_code) ==
    IF status_code = 1 THEN "in_progress"
    ELSE IF status_code = 3 THEN "completed"
    ELSE "unknown"

\* poll_studio_status: the artifacts of the response, each with its type and
\* status names; an "ok" response holds one artifact with the given codes,
\* any other shape holds none that is long enough to be listed.
poll_studio_status(c, f, o, type_code, status_code) ==
    LET r == roundtrip(c, f, RPC.POLL_STUDIO, o, IF o = "ok" THEN "value" ELSE "empty")
    IN  [c |-> r.c, reqs |-> r.reqs, ret |-> r.ret, n |-> 0,
         artifacts |-> IF r.ret = "value"
                       THEN <<[type |-> studio_type_name(type_code),
                               status |-> studio_status_name(status_code)]>>
                       ELSE <<>>]

delete_studio_artifact(c, f, o) ==
    roundtrip(c, f, RPC.DELETE_STUDIO, o, IF o = "no_triplet" THEN "false" ELSE "true")

\* ------------------------------------------------- option strings
ChatGoals == {"default", "learning_guide", "custom"}
ChatLengths == {"default", "longer", "shorter"}
CHAT_PROMPT_LIMIT == 10000
\* Lengths of the custom_prompt argument: absent/empty, short, over the limit.
ResearchSources == {"web", "drive"}
ResearchModes == {"fast", "deep"}
Bogus == "bogus"   \* an option string no table holds

\* configure_chat: the connection is obtained first, then goal, custom prompt
\* and response length are validated (ValueError), then one request is sent
\* under the rename operation's id.
configure_chat(c, f, goal, prompt_len, response_length, o) ==
    LET c2 == _get_client(c, f)
    IN  IF goal \notin ChatGoals THEN Ret(c2, <<>>, "raise", 0)
        ELSE IF goal = "custom" /\ prompt_len = 0 THEN Ret(c2, <<>>, "raise", 0)
        ELSE IF goal = "custom" /\ prompt_len > CHAT_PROMPT_LIMIT THEN Ret(c2, <<>>, "raise", 0)
        ELSE IF response_length \notin ChatLengths THEN Ret(c2, <<>>, "raise", 0)
        ELSE roundtrip(c2, f, RPC.RENAME_NOTEBOOK, o,
                       IF o \in {"no_triplet", "empty"} THEN "err_dict" ELSE "ok_dict")

\* query: with no source_ids the notebook is fetched first (its sources are
\* then not used: source_ids becomes []), then one streaming request is sent.
\* The source ids query puts in its request: the caller's list, or, when
\* none was given, the list it builds from get_notebook's return value,
\* which is [] in both branches (the notebook data is not read).
query_source_ids(ids_given, source_ids, notebook_data) ==
    IF ids_given THEN source_ids
    ELSE IF Truthy(notebook_data) THEN {} ELSE {}

query(c, f, ids_given, o1, o2) ==
    LET c2 == _get_client(c, f)
        g  == IF ids_given THEN Ret(c2, <<>>, "none", 0) ELSE get_notebook(c2, f, o1)
    IN  IF g.ret = "raise" THEN g
        ELSE LET s == send(c2, QUERY_ENDPOINT, o2)
             IN  Ret(c2, g.reqs \o s.reqs, IF s.exc THEN "raise" ELSE "value", 0)

\* start_research: source and mode are validated before the connection is
\* obtained; fast and deep research are different operations.
start_research(c, f, source, mode, o) ==
    IF source \notin ResearchSources THEN Ret(c, <<>>, "raise", 0)
    ELSE IF mode \notin ResearchModes THEN Ret(c, <<>>, "raise", 0)
    ELSE IF mode = "deep" /\ source = "drive" THEN Ret(c, <<>>, "raise", 0)
    ELSE roundtrip(c, f, IF mode = "fast" THEN RPC.START_FAST_RESEARCH ELSE RPC.START_DEEP_RESEARCH,
                   o, IF o \in {"no_triplet", "empty"} THEN "none" ELSE "value")

\* The snapshot poll_research returns.  code is the status code of the first
\* task of an "ok" response (0: no status slot), n its number of sources.
NoSnapshot == [status |-> "", n |-> 0]
\* The status mapping mutated: only code 1 is in progress.
research_task_status_strict(code) ==
    IF code = 2 THEN "completed" ELSE IF code = 1 THEN "in_progress" ELSE "unknown"

\* status = "completed" if status_code == 2 else "in_progress"
research_task_status(code) == IF code = 2 THEN "completed" ELSE "in_progress"

poll_research(c, f, o, code, n) ==
    LET r == roundtrip(c, f, RPC.POLL_RESEARCH, o, "value")
    IN  [c |-> r.c, reqs |-> r.reqs, ret |-> r.ret,
         snap |-> IF r.ret = "raise" THEN NoSnapshot
                  ELSE IF o # "ok" THEN [status |-> "no_research", n |-> 0]
                  ELSE [status |-> research_task_status(code), n |-> n]]

\* _get_result_type_name: type_names.get(result_type, "unknown")
_get_result_type_name(result_type) ==
    CASE result_type = 1 -> "web"
      [] result_type = 2 -> "google_doc"
      [] result_type = 3 -> "google_slides"
      [] result_type = 5 -> "deep_report"
      [] result_type = 8 -> "google_sheets"
      [] OTHER -> "unknown"

\* The enumerated fields poll_research decodes for a task, from the codes of
\* its task_info and of a discovered source; 0 stands for an absent code.
\* An absent source type and an absent result type default to 1.
research_task_enums(source_type, research_mode, result_type) ==
    [source_type |-> IF (IF source_type = 0 THEN 1 ELSE source_type) = 1 THEN "web" ELSE "drive",
     mode |-> IF research_mode = 5 THEN "deep" ELSE "fast",
     result_type_name |-> _get_result_type_name(IF result_type = 0 THEN 1 ELSE result_type)]

\* return research_tasks[0]: of the tasks decoded from the poll response,
\* poll_research returns the first; tasks holds their ids in response order.
most_recent_task(tasks) == tasks[1]

\* import_research_sources: nothing is sent for an empty source list.
import_research_sources(c, f, n, o) ==
    IF n = 0 THEN Ret(c, <<>>, "empty", 0)
    ELSE roundtrip(c, f, RPC.IMPORT_RESEARCH, o, IF o = "ok" THEN "value" ELSE "empty")

\* ================================================================ server.py
NoTokens == [set |-> FALSE, cookies |-> "", csrf |-> ""]

\* load_cached_tokens: the tokens of the cache file, if there is one.
load_cached_tokens == cache

\* The identity a connection created during the current call gets.
Fresh == nconn + 1

\* get_client: the process-wide client, built on first use from the
\* environment variables or else from the token cache; ValueError when
\* neither holds cookies.  A client that fails to build leaves _client unset.
get_client(fo) ==
    IF client.set
    THEN [exc |-> FALSE, err |-> "", fetched |-> FALSE, pages |-> <<>>, c |-> client]
    ELSE IF env.cookies # "" THEN ConsumerNotebookLMClient(env.cookies, env.csrf, fo)
    ELSE LET cached == load_cached_tokens
         IN  IF cached.set
             THEN ConsumerNotebookLMClient(cached.cookies,
                                           IF env.csrf # "" THEN env.csrf ELSE cached.csrf, fo)
             ELSE [exc |-> TRUE, err |-> "no_authentication", fetched |-> FALSE,
                   pages |-> <<>>, c |-> NoClient]

\* The result of a tool call: the status of the returned dictionary
\* ("raised" while an exception is in flight), the process-wide client after
\* the call, the requests issued, whether the landing page was fetched, and
\* tool-specific fields of the result.
NoData == [none |-> TRUE]
T(status, c, reqs, fetched, data) ==
    [status |-> status, c |-> c, reqs |-> reqs, fetched |-> fetched, data |-> data]

\* The handler mutated: the exception is not caught.
except_nothing(r) == r

\* except Exception as e: return {"status": "error", "error": str(e)}
except_Exception(r) == IF r.status = "raised" THEN [r EXCEPT !.status = "error"] ELSE r

\* get_client() raised inside the try block: _client is as it was, and the
\* result carries str(e) (with it, the page fetches the failed attempt made).
no_client(g) == T("raised", client, <<>>, g.fetched, [error |-> g.err, pages |-> g.pages])
\* A client method was called and the tool maps its return value to status.
after(g, m, status) ==
    T(IF m.ret = "raise" THEN "raised" ELSE status, m.c, m.reqs, g.fetched, NoData)
if_result(m) == IF Truthy(m.ret) THEN "success" ELSE "error"

notebook_list(fo, o) ==
    except_Exception(
        LET g == get_client(fo)
        IN  IF g.exc THEN no_client(g)
            ELSE after(g, list_notebooks(g.c, Fresh, o), "success"))

notebook_create(fo, o) ==
    except_Exception(
        LET g == get_client(fo)
        IN  IF g.exc THEN no_client(g)
            ELSE LET m == create_notebook(g.c, Fresh, o) IN after(g, m, if_result(m)))

notebook_get(fo, o) ==
    except_Exception(
        LET g == get_client(fo)
        IN  IF g.exc THEN no_client(g)
            ELSE after(g, get_notebook(g.c, Fresh, o), "success"))

notebook_add_url(fo, o) ==
    except_Exception(
        LET g == get_client(fo)
        IN  IF g.exc THEN no_client(g)
            ELSE LET m == add_url_source(g.c, Fresh, o) IN after(g, m, if_result(m)))

notebook_add_text(fo, o) ==
    except_Exception(
        LET g == get_client(fo)
        IN  IF g.exc THEN no_client(g)
            ELSE LET m == add_text_source(g.c, Fresh, o) IN after(g, m, if_result(m)))

DocTypes == {"doc", "docs", "slides", "sheets", "pdf"}

notebook_add_drive(doc_type, fo, o) ==
    except_Exception(
        IF doc_type \notin DocTypes THEN T("error", client, <<>>, FALSE, NoData)
        ELSE LET g == get_client(fo)
             IN  IF g.exc THEN no_client(g)
                 ELSE LET m == add_drive_source(g.c, Fresh, o) IN after(g, m, if_result(m)))

notebook_query(ids_given, fo, o1, o2) ==
    except_Exception(
        LET g == get_client(fo)
        IN  IF g.exc THEN no_client(g)
            ELSE LET m == query(g.c, Fresh, ids_given, o1, o2) IN after(g, m, if_result(m)))

\* notebook_delete mutated: the confirmation is checked after the client is obtained.
notebook_delete_late_check(confirm, fo, o) ==
    except_Exception(
        LET g == get_client(fo)
        IN  IF g.exc THEN no_client(g)
            ELSE IF ~confirm THEN T("error", g.c, <<>>, g.fetched, NoData)
            ELSE LET m == delete_notebook(g.c, Fresh, o) IN after(g, m, if_result(m)))

notebook_delete(confirm, fo, o) ==
    IF ~confirm THEN T("error", client, <<>>, FALSE, NoData)
    ELSE except_Exception(
        LET g == get_client(fo)
        IN  IF g.exc THEN no_client(g)
            ELSE LET m == delete_notebook(g.c, Fresh, o) IN after(g, m, if_result(m)))

notebook_rename(fo, o) ==
    except_Exception(
        LET g == get_client(fo)
        IN  IF g.exc THEN no_client(g)
            ELSE LET m == rename_notebook(g.c, Fresh, o) IN after(g, m, if_result(m)))

\* chat_configure returns the client's dictionary as it is.
chat_configure(goal, prompt_len, response_length, fo, o) ==
    except_Exception(
        LET g == get_client(fo)
        IN  IF g.exc THEN no_client(g)
            ELSE LET m == configure_chat(g.c, Fresh, goal, prompt_len, response_length, o)
                 IN  after(g, m, IF m.ret = "ok_dict" THEN "success" ELSE "error"))

\* The loop of source_list_drive over the syncable sources i..k: one
\* freshness check each; an exception leaves the loop (and the tool).
RECURSIVE freshness_loop(_, _, _, _)
freshness_loop(c, outs, i, k) ==
    IF i > k THEN Ret(c, <<>>, "value", 0)
    ELSE LET m == check_source_freshness(c, Fresh, outs[i])
         IN  IF m.ret = "raise" THEN m
             ELSE LET rest == freshness_loop(m.c, outs, i + 1, k)
                  IN  Ret(rest.c, m.reqs \o rest.reqs, rest.ret, 0)

\* n sources in the notebook, all of them syncable or none.
source_list_drive(fo, o, n, syncable, outs) ==
    except_Exception(
        LET g == get_client(fo)
        IN  IF g.exc THEN no_client(g)
            ELSE LET s == get_notebook_sources_with_types(g.c, Fresh, o, n)
                 IN  IF s.ret = "raise" THEN after(g, s, "success")
                     ELSE LET l == freshness_loop(s.c, outs, 1, IF syncable THEN s.n ELSE 0)
                          IN  after(g, Ret(l.c, s.reqs \o l.reqs, l.ret, 0), "success"))

\* The loop mutated: it ends at the first sync that fails or raises.
RECURSIVE sync_loop_until_failure(_, _, _, _)
sync_loop_until_failure(c, outs, i, k) ==
    IF i > k THEN [c |-> c, reqs |-> <<>>, synced |-> 0, failed |-> 0, results |-> <<>>]
    ELSE LET m == sync_drive_source(c, Fresh, outs[i])
             good == Truthy(m.ret)
             rest == IF good THEN sync_loop_until_failure(m.c, outs, i + 1, k)
                     ELSE [c |-> m.c, reqs |-> <<>>, synced |-> 0, failed |-> 0,
                           results |-> <<>>]
         IN  [c |-> rest.c, reqs |-> m.reqs \o rest.reqs,
              synced |-> rest.synced + (IF good THEN 1 ELSE 0),
              failed |-> rest.failed + (IF good THEN 0 ELSE 1),
              results |-> <<[source_id |-> i, status |-> IF good THEN "synced" ELSE "failed"]>>
                          \o rest.results]

\* The loop of source_sync_drive over source_ids[i..k]: one sync each, a
\* failing or raising sync is counted and the loop goes on; every id gets
\* its entry in results (the i-th id stands as i).
RECURSIVE sync_loop(_, _, _, _)
sync_loop(c, outs, i, k) ==
    IF i > k THEN [c |-> c, reqs |-> <<>>, synced |-> 0, failed |-> 0, results |-> <<>>]
    ELSE LET m == sync_drive_source(c, Fresh, outs[i])
             rest == sync_loop(m.c, outs, i + 1, k)
             good == Truthy(m.ret)
         IN  [c |-> rest.c, reqs |-> m.reqs \o rest.reqs,
              synced |-> rest.synced + (IF good THEN 1 ELSE 0),
              failed |-> rest.failed + (IF good THEN 0 ELSE 1),
              results |-> <<[source_id |-> i, status |-> IF good THEN "synced" ELSE "failed"]>>
                          \o rest.results]

\* k is the length of source_ids.
source_sync_drive(k, confirm, fo, outs) ==
    IF ~confirm THEN T("error", client, <<>>, FALSE, NoData)
    ELSE IF k = 0 THEN T("error", client, <<>>, FALSE, NoData)
    ELSE except_Exception(
        LET g == get_client(fo)
        IN  IF g.exc THEN no_client(g)
            ELSE LET l == sync_loop(g.c, outs, 1, k)
                 IN  T(IF l.failed = 0 THEN "success" ELSE "partial", l.c, l.reqs, g.fetched,
                       [total |-> k, synced |-> l.synced, failed |-> l.failed,
                        results |-> l.results]))

\* research_start: the client, the deep+drive check, the notebook (created
\* when no notebook_id is given), then start_research, which validates
\* source and mode.
research_start(source, mode, nb_given, fo, o1, o2) ==
    except_Exception(
        LET g == get_client(fo)
        IN  IF g.exc THEN no_client(g)
            ELSE IF mode = "deep" /\ source = "drive" THEN T("error", g.c, <<>>, g.fetched, NoData)
            ELSE LET nb == IF nb_given THEN Ret(g.c, <<>>, "value", 0)
                           ELSE create_notebook(g.c, Fresh, o1)
                 IN  IF nb.ret = "raise" THEN after(g, nb, "error")
                     ELSE IF ~Truthy(nb.ret) THEN after(g, nb, "error")
                     ELSE LET m == start_research(nb.c, Fresh, source, mode, o2)
                          IN  after(g, Ret(m.c, nb.reqs \o m.reqs, m.ret, 0), if_result(m)))

\* source_indices of research_import: omitted, an empty list, indices all in
\* range, or some index out of range.

\* research_import mutated: the indices are not checked.
research_import_no_index_check(idx, fo, o1, code, n, o2) ==
    except_Exception(
        LET g == get_client(fo)
        IN  IF g.exc THEN no_client(g)
            ELSE LET p == poll_research(g.c, Fresh, o1, code, n)
                     polled == Ret(p.c, p.reqs, p.ret, 0)
                 IN  IF p.ret = "raise" THEN after(g, polled, "error")
                     ELSE IF p.snap.status = "no_research" THEN after(g, polled, "error")
                     ELSE IF p.snap.status # "completed" THEN after(g, polled, "error")
                     ELSE IF p.snap.n = 0 THEN after(g, polled, "error")
                     ELSE LET m == import_research_sources(p.c, Fresh,
                                        IF idx = "empty" THEN 0 ELSE p.snap.n, o2)
                          IN  after(g, Ret(m.c, p.reqs \o m.reqs, m.ret, 0), "success"))

research_import(idx, fo, o1, code, n, o2) ==
    except_Exception(
        LET g == get_client(fo)
        IN  IF g.exc THEN no_client(g)
            ELSE LET p == poll_research(g.c, Fresh, o1, code, n)
                     polled == Ret(p.c, p.reqs, p.ret, 0)
                 IN  IF p.ret = "raise" THEN after(g, polled, "error")
                     ELSE IF p.snap.status = "no_research" THEN after(g, polled, "error")
                     ELSE IF p.snap.status # "completed" THEN after(g, polled, "error")
                     ELSE IF p.snap.n = 0 THEN after(g, polled, "error")
                     ELSE IF idx = "invalid" THEN after(g, polled, "error")
                     ELSE LET m == import_research_sources(p.c, Fresh,
                                        IF idx = "empty" THEN 0 ELSE p.snap.n, o2)
                          IN  after(g, Ret(m.c, p.reqs \o m.reqs, m.ret, 0), "success"))

AudioFormats == {"deep_dive", "brief", "critique", "debate"}
AudioLengths == {"short", "default", "long"}
VideoFormats == {"explainer", "brief"}
VideoStyles == {"auto_select", "custom", "classic", "whiteboard", "kawaii", "anime",
                "watercolor", "retro_print", "heritage", "paper_craft"}
Orientations == {"landscape", "portrait", "square"}
DetailLevels == {"concise", "standard", "detailed"}
DeckFormats == {"detailed_deck", "presenter_slides"}
DeckLengths == {"short", "default"}
\* The source_ids argument of a generation tool: omitted (None), [] or a list.
SourceChoices == {"omitted", "empty", "given"}

\* The common body mutated: the source list is not tested for emptiness.
generate_any_source_list(opt1, table1, opt2, table2, src, method, fo, o1, ids, o2) ==
    except_Exception(
        LET g == get_client(fo)
        IN  IF g.exc THEN no_client(g)
            ELSE IF opt1 \notin table1 THEN T("error", g.c, <<>>, g.fetched, NoData)
            ELSE IF opt2 \notin table2 THEN T("error", g.c, <<>>, g.fetched, NoData)
            ELSE LET s == IF src = "omitted"
                          THEN get_notebook_sources_with_types(g.c, Fresh, o1, Len(ids))
                          ELSE Ret(g.c, <<>>, "value", 0)
                 IN  IF s.ret = "raise" THEN after(g, s, "error")
                     ELSE LET m == CASE method = "audio" -> create_audio_overview(s.c, Fresh, o2)
                                     [] method = "video" -> create_video_overview(s.c, Fresh, o2)
                                     [] OTHER -> Ret(s.c, <<>>, "raise", 0)
                          IN  after(g, Ret(m.c, s.reqs \o m.reqs, m.ret, 0), if_result(m)))

\* The common body of the four generation tools once confirmed: option
\* tables, the source list (read from the notebook when omitted, keeping the
\* sources that have an id), then the client's create method; method =
\* "missing" when the client has no such method (AttributeError).  ids tells
\* of each source of the notebook whether it has an id.
generate(opt1, table1, opt2, table2, src, method, fo, o1, ids, o2) ==
    except_Exception(
        LET g == get_client(fo)
        IN  IF g.exc THEN no_client(g)
            ELSE IF opt1 \notin table1 THEN T("error", g.c, <<>>, g.fetched, NoData)
            ELSE IF opt2 \notin table2 THEN T("error", g.c, <<>>, g.fetched, NoData)
            ELSE LET s == IF src = "omitted"
                          THEN get_notebook_sources_with_types(g.c, Fresh, o1, Len(ids))
                          ELSE Ret(g.c, <<>>, IF src = "given" THEN "value" ELSE "empty", 0)
                     source_ids == IF src # "omitted" THEN s.ret = "value"
                                   ELSE s.ret = "value" /\ \E i \in 1..Len(ids) : ids[i]
                 IN  IF s.ret = "raise" THEN after(g, s, "error")
                     ELSE IF ~source_ids THEN after(g, s, "error")
                     ELSE LET m == CASE method = "audio" -> create_audio_overview(s.c, Fresh, o2)
                                     [] method = "video" -> create_video_overview(s.c, Fresh, o2)
                                     [] OTHER -> Ret(s.c, <<>>, "raise", 0)
                          IN  after(g, Ret(m.c, s.reqs \o m.reqs, m.ret, 0), if_result(m)))

Pending == T("pending_confirmation", client, <<>>, FALSE, NoData)

audio_overview_create(confirm, format, length, src, fo, o1, ids, o2) ==
    IF ~confirm THEN Pending
    ELSE generate(format, AudioFormats, length, AudioLengths, src, "audio", fo, o1, ids, o2)

video_overview_create(confirm, format, visual_style, src, fo, o1, ids, o2) ==
    IF ~confirm THEN Pending
    ELSE generate(format, VideoFormats, visual_style, VideoStyles, src, "video", fo, o1, ids, o2)

\* api_client.py defines no create_infographic and no create_slide_deck.
infographic_create(confirm, orientation, detail_level, src, fo, o1, ids, o2) ==
    IF ~confirm THEN Pending
    ELSE generate(orientation, Orientations, detail_level, DetailLevels, src, "missing", fo, o1, ids, o2)

slide_deck_create(confirm, format, length, src, fo, o1, ids, o2) ==
    IF ~confirm THEN Pending
    ELSE generate(format, DeckFormats, length, DeckLengths, src, "missing", fo, o1, ids, o2)

\* studio_status: one poll, then the artifacts counted by status.
studio_status(fo, o, type_code, status_code) ==
    except_Exception(
        LET g == get_client(fo)
        IN  IF g.exc THEN no_client(g)
            ELSE LET m == poll_studio_status(g.c, Fresh, o, type_code, status_code)
                     count(st) == Cardinality({i \in 1..Len(m.artifacts) : m.artifacts[i].status = st})
                 IN  IF m.ret = "raise" THEN after(g, m, "success")
                     ELSE T("success", m.c, m.reqs, g.fetched,
                            [total |-> Len(m.artifacts), completed |-> count("completed"),
                             in_progress |-> count("in_progress")]))

studio_delete(confirm, fo, o) ==
    IF ~confirm THEN T("error", client, <<>>, FALSE, NoData)
    ELSE except_Exception(
        LET g == get_client(fo)
        IN  IF g.exc THEN no_client(g)
            ELSE LET m == delete_studio_artifact(g.c, Fresh, o) IN after(g, m, if_result(m)))

\* ------------------------------------------------------- research_status
\* The locals of research_status: its arguments, the polls made, the sleeps
\* taken and their total length, the time since start_time, the result of
\* the last poll, and what each poll reported (the task status of a decoded
\* task, else the outcome).
rs0 == [poll_interval |-> 0, max_wait |-> 0, polls |-> 0, sleeps |-> 0, slept |-> 0,
        elapsed |-> 0, result |-> NoSnapshot, log |-> <<>>]

\* The terminal check mutated: only "no_research" ends the loop.
is_terminal_no_completed(status) == status = "no_research"

\* if result.get("status") in ("completed", "no_research")
is_terminal(status) == status \in {"completed", "no_research"}

\* The stop check mutated: a strict comparison and no test for zero.
stop_waiting_strict(max_wait, elapsed) == elapsed > max_wait

\* if max_wait == 0 or elapsed >= max_wait
stop_waiting(max_wait, elapsed) == max_wait = 0 \/ elapsed >= max_wait

\* The annotation mutated: the poll count is taken before the increment.
annotate_stale_count(snap, polls, elapsed) ==
    [status |-> snap.status, n |-> snap.n, polls_made |-> polls - 1,
     wait_time_seconds |-> elapsed]

\* result["polls_made"] = polls; result["wait_time_seconds"] = round(elapsed, 1)
annotate(snap, polls, elapsed) ==
    [status |-> snap.status, n |-> snap.n, polls_made |-> polls,
     wait_time_seconds |-> elapsed]

\* One pass of the while loop up to the sleep: poll, then return or go on.
\* d is the time the poll took.  The value is the tool result when the call
\* returns, with status "running" when the loop goes on to sleep.
rs_iteration(o, code, n, d) ==
    LET p == poll_research(client, Fresh, o, code, n)
        polls == rs.polls + 1
        elapsed == rs.elapsed + d
        reqs == last.reqs \o p.reqs
    IN  IF p.ret = "raise" THEN except_Exception(T("raised", p.c, reqs, last.fetched, NoData))
        ELSE IF p.snap.status = "" THEN T("error", p.c, reqs, last.fetched, NoData)
        ELSE IF is_terminal(p.snap.status)
             THEN T("success", p.c, reqs, last.fetched, annotate(p.snap, polls, elapsed))
        ELSE IF stop_waiting(rs.max_wait, elapsed)
             THEN T("success", p.c, reqs, last.fetched, annotate(p.snap, polls, elapsed))
        ELSE T("running", p.c, reqs, last.fetched, NoData)

\* ------------------------------------------------------------- the state
\* The record kept of a call: the tool, its confirm flag (TRUE for a tool
\* without one), whether every option string was a recognized one, the
\* process-wide client before the call, what the landing page answered when
\* the call fetched it ("none" when it did not), and the tool's result.
Last(tool, confirm, valid, fo, r) ==
    [tool |-> tool, confirm |-> confirm, valid |-> valid, pre |-> client,
     page |-> IF r.fetched THEN fo ELSE "none",
     status |-> r.status, reqs |-> r.reqs, fetched |-> r.fetched, data |-> r.data]

\* The effect of a finished tool call on the process: the result is ready
\* for the caller.
Apply(tool, confirm, valid, fo, r) ==
    /\ last' = Last(tool, confirm, valid, fo, r)
    /\ client' = r.c
    /\ nconn' = IF r.c.http > nconn THEN r.c.http ELSE nconn
    /\ open' = IF r.c.http > nconn THEN open \cup {r.c.http} ELSE open
    /\ pc' = "done"
    /\ UNCHANGED <<env, cache, rs>>

\* No tool call is under way.
NoCall == [tool |-> "none", confirm |-> TRUE, valid |-> TRUE, pre |-> NoClient, page |-> "none",
           status |-> "none", reqs |-> <<>>, fetched |-> FALSE, data |-> NoData]

\* Inputs are drawn only where the call consumes them. The landing page is
\* fetched when get_client builds a client from cookies that come without a
\* CSRF token; the fetch can then do one of five things.
FetchIf(cond) ==
    IF /\ cond
       /\ ~client.set
       /\ \/ env.cookies # "" /\ env.csrf = ""
          \/ env.cookies = "" /\ cache.set /\ env.csrf = "" /\ cache.csrf = ""
    THEN {"ok", "login_redirect", "bad_status", "no_csrf", "conn_error"}
    ELSE {"ok"}
OutIf(cond) == IF cond THEN Outcomes ELSE {"ok"}
OutsIf(cond, k) == IF cond THEN [1..k -> Outcomes] ELSE {[i \in 1..k |-> "ok"]}

Init ==
    /\ env \in [cookies : {"", "env"}, csrf : {"", "env"}]
    /\ cache \in {NoTokens} \cup [set : {TRUE}, cookies : {"cached"}, csrf : {"", "cached"}]
    /\ client = NoClient
    /\ nconn = 0
    /\ open = {}
    /\ pc = "idle"
    /\ rs = rs0
    /\ last = NoCall

\* Status codes a polled research task may carry; 0 stands for no status slot.
PollCodes == {0, 1, 2, 3}

call_notebook_list ==
    /\ pc = "idle"
    /\ \E fo \in FetchIf(TRUE), o \in Outcomes :
          Apply("notebook_list", TRUE, TRUE, fo, notebook_list(fo, o))

call_notebook_create ==
    /\ pc = "idle"
    /\ \E fo \in FetchIf(TRUE), o \in Outcomes :
          Apply("notebook_create", TRUE, TRUE, fo, notebook_create(fo, o))

call_notebook_get ==
    /\ pc = "idle"
    /\ \E fo \in FetchIf(TRUE), o \in Outcomes :
          Apply("notebook_get", TRUE, TRUE, fo, notebook_get(fo, o))

call_notebook_add_url ==
    /\ pc = "idle"
    /\ \E fo \in FetchIf(TRUE), o \in Outcomes :
          Apply("notebook_add_url", TRUE, TRUE, fo, notebook_add_url(fo, o))

call_notebook_add_text ==
    /\ pc = "idle"
    /\ \E fo \in FetchIf(TRUE), o \in Outcomes :
          Apply("notebook_add_text", TRUE, TRUE, fo, notebook_add_text(fo, o))

call_notebook_add_drive ==
    /\ pc = "idle"
    /\ \E doc_type \in {"doc", Bogus} :
       \E fo \in FetchIf(doc_type \in DocTypes), o \in OutIf(doc_type \in DocTypes) :
          Apply("notebook_add_drive", TRUE, doc_type \in DocTypes, fo,
                notebook_add_drive(doc_type, fo, o))

call_notebook_query ==
    /\ pc = "idle"
    /\ \E ids_given \in BOOLEAN :
       \E fo \in FetchIf(TRUE), o1 \in OutIf(~ids_given), o2 \in Outcomes :
          Apply("notebook_query", TRUE, TRUE, fo, notebook_query(ids_given, fo, o1, o2))

call_notebook_delete ==
    /\ pc = "idle"
    /\ \E confirm \in BOOLEAN :
       \E fo \in FetchIf(confirm), o \in OutIf(confirm) :
          Apply("notebook_delete", confirm, TRUE, fo, notebook_delete(confirm, fo, o))

call_notebook_rename ==
    /\ pc = "idle"
    /\ \E fo \in FetchIf(TRUE), o \in Outcomes :
          Apply("notebook_rename", TRUE, TRUE, fo, notebook_rename(fo, o))

call_chat_configure ==
    /\ pc = "idle"
    /\ \E goal \in {"default", "custom", Bogus}, prompt_len \in {0, 1, CHAT_PROMPT_LIMIT + 1},
          response_length \in {"default", Bogus} :
       \E fo \in FetchIf(TRUE),
          o \in OutIf(goal \in ChatGoals /\ response_length \in ChatLengths
                      /\ (goal = "custom" => prompt_len \in 1..CHAT_PROMPT_LIMIT)) :
          Apply("chat_configure", TRUE, goal \in ChatGoals /\ response_length \in ChatLengths, fo,
                chat_configure(goal, prompt_len, response_length, fo, o))

call_source_list_drive ==
    /\ pc = "idle"
    /\ \E o \in Outcomes, n \in 0..MaxSources, syncable \in BOOLEAN :
       \E fo \in FetchIf(TRUE), outs \in OutsIf(syncable /\ o = "ok", n) :
          Apply("source_list_drive", TRUE, TRUE, fo, source_list_drive(fo, o, n, syncable, outs))

call_source_sync_drive ==
    /\ pc = "idle"
    /\ \E k \in 0..MaxIds, confirm \in BOOLEAN :
       \E fo \in FetchIf(confirm /\ k > 0), outs \in OutsIf(confirm, k) :
          Apply("source_sync_drive", confirm, TRUE, fo,
                [source_sync_drive(k, confirm, fo, outs)
                 EXCEPT !.data = [k |-> k, outs |-> outs] @@ @])

call_research_start ==
    /\ pc = "idle"
    /\ \E source \in ResearchSources \cup {Bogus}, mode \in ResearchModes \cup {Bogus},
          nb_given \in BOOLEAN :
       \E fo \in FetchIf(TRUE), o1 \in OutIf(~nb_given /\ ~(mode = "deep" /\ source = "drive")) :
       \E o2 \in OutIf(source \in ResearchSources /\ mode \in ResearchModes
                       /\ ~(mode = "deep" /\ source = "drive")
                       /\ o1 = "ok") :
          Apply("research_start", TRUE, source \in ResearchSources /\ mode \in ResearchModes, fo,
                research_start(source, mode, nb_given, fo, o1, o2))

\* The record of the call also keeps the arguments and what the poll was
\* answered.
call_research_import ==
    /\ pc = "idle"
    /\ \E idx \in {"omitted", "empty", "valid", "invalid"}, o1 \in Outcomes :
       \E code \in (IF o1 = "ok" THEN PollCodes ELSE {0}),
          n \in (IF o1 = "ok" THEN 0..MaxSources ELSE {0}) :
       \E fo \in FetchIf(TRUE), o2 \in OutIf(o1 = "ok" /\ code = 2 /\ n > 0) :
       \* task_id: the argument, which goes into the import request as it is;
       \* tasks: the ids of the research tasks the poll response lists
       \E task_id \in (IF o1 = "ok" /\ code = 2 /\ n > 0 THEN {"t1", "t2"} ELSE {"t1"}),
          tasks \in (IF o1 = "ok" /\ code = 2 /\ n > 0
                     THEN {<<"t1">>, <<"t2">>, <<"t1", "t2">>, <<"t2", "t1">>}
                     ELSE {<<"t1">>}) :
          LET r == research_import(idx, fo, o1, code, n, o2)
          IN  Apply("research_import", TRUE, TRUE, fo,
                    [r EXCEPT !.data = [idx |-> idx, o1 |-> o1, code |-> code, n |-> n,
                                        task_id |-> task_id, tasks |-> tasks,
                                        discovered_by |-> most_recent_task(tasks)] @@ @])

\* The inputs of a generation tool that the call consumes: the outcome of
\* reading the sources, their number, the outcome of the create request.
GenInputs(consumed, src, has_method) ==
    IF ~consumed \/ src = "empty" THEN {<<"ok", <<>>, "ok">>}
    ELSE IF src = "given" THEN {<<"ok", <<>>, o2>> : o2 \in OutIf(has_method)}
    ELSE {<<o1, <<>>, "ok">> : o1 \in Outcomes}
         \cup UNION {{<<"ok", ids, o2>> : o2 \in OutIf(has_method /\ \E i \in 1..Len(ids) : ids[i])} :
                       ids \in UNION {[1..k -> BOOLEAN] : k \in 1..MaxSources}}

call_audio_overview_create ==
    /\ pc = "idle"
    /\ \E confirm \in BOOLEAN, format \in {"deep_dive", Bogus}, length \in {"default", Bogus},
          src \in SourceChoices :
       LET valid == format \in AudioFormats /\ length \in AudioLengths
       IN  \E fo \in FetchIf(confirm), in \in GenInputs(confirm /\ valid, src, TRUE) :
              Apply("audio_overview_create", confirm, valid, fo,
                    [audio_overview_create(confirm, format, length, src, fo, in[1], in[2], in[3])
                        EXCEPT !.data = [src |-> src, o1 |-> in[1], ids |-> in[2], o2 |-> in[3]] @@ @])

call_video_overview_create ==
    /\ pc = "idle"
    /\ \E confirm \in BOOLEAN, format \in {"explainer", Bogus},
          visual_style \in {"auto_select", Bogus}, src \in SourceChoices :
       LET valid == format \in VideoFormats /\ visual_style \in VideoStyles
       IN  \E fo \in FetchIf(confirm), in \in GenInputs(confirm /\ valid, src, TRUE) :
              Apply("video_overview_create", confirm, valid, fo,
                    [video_overview_create(confirm, format, visual_style, src, fo,
                                          in[1], in[2], in[3])
                        EXCEPT !.data = [src |-> src, o1 |-> in[1], ids |-> in[2], o2 |-> in[3]] @@ @])

call_infographic_create ==
    /\ pc = "idle"
    /\ \E confirm \in BOOLEAN, orientation \in {"landscape", Bogus},
          detail_level \in {"standard", Bogus}, src \in SourceChoices :
       LET valid == orientation \in Orientations /\ detail_level \in DetailLevels
       IN  \E fo \in FetchIf(confirm), in \in GenInputs(confirm /\ valid, src, FALSE) :
              Apply("infographic_create", confirm, valid, fo,
                    [infographic_create(confirm, orientation, detail_level, src, fo,
                                       in[1], in[2], in[3])
                        EXCEPT !.data = [src |-> src, o1 |-> in[1], ids |-> in[2], o2 |-> in[3]] @@ @])

call_slide_deck_create ==
    /\ pc = "idle"
    /\ \E confirm \in BOOLEAN, format \in {"detailed_deck", Bogus}, length \in {"default", Bogus},
          src \in SourceChoices :
       LET valid == format \in DeckFormats /\ length \in DeckLengths
       IN  \E fo \in FetchIf(confirm), in \in GenInputs(confirm /\ valid, src, FALSE) :
              Apply("slide_deck_create", confirm, valid, fo,
                    [slide_deck_create(confirm, format, length, src, fo, in[1], in[2], in[3])
                        EXCEPT !.data = [src |-> src, o1 |-> in[1], ids |-> in[2], o2 |-> in[3]] @@ @])

call_studio_status ==
    /\ pc = "idle"
    /\ \E fo \in FetchIf(TRUE), o \in Outcomes :
       \E type_code \in (IF o = "ok" THEN StudioCodes ELSE {STUDIO_TYPE_AUDIO}),
          status_code \in (IF o = "ok" THEN StudioCodes ELSE {1}) :
          Apply("studio_status", TRUE, TRUE, fo, studio_status(fo, o, type_code, status_code))

call_studio_delete ==
    /\ pc = "idle"
    /\ \E confirm \in BOOLEAN :
       \E fo \in FetchIf(confirm), o \in OutIf(confirm) :
          Apply("studio_delete", confirm, TRUE, fo, studio_delete(confirm, fo, o))

\* save_tokens_to_cache: write the tokens to the cache file.
save_tokens_to_cache(tokens) == tokens

\* save_auth_tokens: parse the cookie header, refuse it when a required
\* cookie is missing, else write the cache and reset _client (the old client
\* is dropped without close()); an exception while saving is caught.
save_auth_tokens(has_required, csrf_token, saved_ok) ==
    IF ~has_required THEN [status |-> "error", c |-> client, cache |-> cache]
    ELSE IF ~saved_ok THEN [status |-> "error", c |-> client, cache |-> cache]
    ELSE [status |-> "success", c |-> NoClient,
          cache |-> save_tokens_to_cache([set |-> TRUE, cookies |-> "saved", csrf |-> csrf_token])]

call_save_auth_tokens ==
    /\ pc = "idle"
    /\ nconn < MaxConns
    /\ \E has_required \in BOOLEAN, csrf_token \in {"", "saved"}, saved_ok \in BOOLEAN :
          LET r == save_auth_tokens(has_required, csrf_token, saved_ok)
          IN  /\ last' = Last("save_auth_tokens", TRUE, TRUE, "none",
                              T(r.status, r.c, <<>>, FALSE, NoData))
              /\ client' = r.c
              /\ cache' = r.cache
              /\ pc' = "done"
              /\ UNCHANGED <<env, nconn, open, rs>>

\* research_status up to the loop: get_client() and start_time.
rs_call ==
    /\ pc = "idle"
    /\ \E poll_interval \in 0..MaxInterval, max_wait \in 0..MaxWait, fo \in FetchIf(TRUE) :
          LET g == get_client(fo)
          IN  IF g.exc
              THEN /\ Apply("research_status", TRUE, TRUE, fo, except_Exception(no_client(g)))
              ELSE /\ last' = Last("research_status", TRUE, TRUE, fo,
                                   T("running", g.c, <<>>, g.fetched, NoData))
                   /\ client' = g.c
                   /\ pc' = "poll"
                   /\ rs' = [rs0 EXCEPT !.poll_interval = poll_interval, !.max_wait = max_wait]
                   /\ UNCHANGED <<env, cache, nconn, open>>

\* One poll of the loop and the checks after it.
rs_poll ==
    /\ pc = "poll"
    /\ rs.polls < MaxPolls
    /\ \E o \in Outcomes, d \in 0..MaxPollTime :
       \E code \in (IF o = "ok" THEN PollCodes ELSE {0}),
          n \in (IF o = "ok" THEN 0..MaxSources ELSE {0}) :
          LET r == rs_iteration(o, code, n, d)
              p == poll_research(client, Fresh, o, code, n)
          IN  /\ rs' = [rs EXCEPT !.polls = @ + 1, !.elapsed = @ + d, !.result = p.snap,
                                  !.log = Append(@, IF o = "ok" THEN p.snap.status ELSE o)]
              /\ last' = [last EXCEPT !.status = r.status, !.reqs = r.reqs, !.data = r.data]
              /\ client' = r.c
              /\ nconn' = IF r.c.http > nconn THEN r.c.http ELSE nconn
              /\ open' = IF r.c.http > nconn THEN open \cup {r.c.http} ELSE open
              /\ pc' = IF r.status = "running" THEN "sleep" ELSE "done"
              /\ UNCHANGED <<env, cache>>

\* time.sleep(poll_interval)
rs_sleep ==
    /\ pc = "sleep"
    /\ rs' = [rs EXCEPT !.sleeps = @ + 1, !.slept = @ + rs.poll_interval,
                        !.elapsed = @ + rs.poll_interval]
    /\ pc' = "poll"
    /\ UNCHANGED <<env, cache, client, nconn, open, last>>

\* The result goes back to the caller; the locals of the call are gone.
tool_return ==
    /\ pc = "done"
    /\ pc' = "idle"
    /\ last' = NoCall
    /\ rs' = rs0
    /\ UNCHANGED <<env, cache, client, nconn, open>>

Next ==
    \/ call_notebook_list
    \/ call_notebook_create
    \/ call_notebook_get
    \/ call_notebook_add_url
    \/ call_notebook_add_text
    \/ call_notebook_add_drive
    \/ call_notebook_query
    \/ call_notebook_delete
    \/ call_notebook_rename
    \/ call_chat_configure
    \/ call_source_list_drive
    \/ call_source_sync_drive
    \/ call_research_start
    \/ call_research_import
    \/ call_audio_overview_create
    \/ call_video_overview_create
    \/ call_infographic_create
    \/ call_slide_deck_create
    \/ call_studio_status
    \/ call_studio_delete
    \/ call_save_auth_tokens
    \/ rs_call
    \/ rs_poll
    \/ rs_sleep
    \/ tool_return

Spec == Init /\ [][Next]_vars


\* =================================================== one client object
\* ClientSpec: the methods of one ConsumerNotebookLMClient and close(), called
\* in any order.  client is the object, last the record of the latest call.

\* The effect of a method call on the object; m is the method's value and
\* data what is kept of the response and of the value.
ClientApplyWith(name, data, m) ==
    /\ last' = [tool |-> name, confirm |-> TRUE, valid |-> TRUE, pre |-> client,
                page |-> "none", status |-> m.ret, reqs |-> m.reqs, fetched |-> FALSE, data |-> data]
    /\ client' = m.c
    /\ nconn' = IF m.c.http > nconn THEN m.c.http ELSE nconn
    /\ open' = IF m.c.http > nconn THEN open \cup {m.c.http} ELSE open
    /\ UNCHANGED <<env, cache, pc, rs>>

\* o is the shape of the response to the method's (last) request.
ClientApply(name, o, m) == ClientApplyWith(name, [out |-> o], m)

\* A connection is at hand or one more may be created.
CanConnect == client.http # 0 \/ nconn < MaxConns

ClientInit ==
    /\ env = [cookies |-> "env", csrf |-> ""]
    /\ cache = NoTokens
    /\ client \in {ConsumerNotebookLMClient("env", csrf_token, "ok").c : csrf_token \in {"", "env"}}
    /\ nconn = 0
    /\ open = {}
    /\ pc = "idle"
    /\ rs = rs0
    /\ last = NoCall

do_list_notebooks ==
    /\ CanConnect
    /\ \E o \in Outcomes :
          ClientApply("list_notebooks", o, list_notebooks(client, Fresh, o))

do_get_notebook ==
    /\ CanConnect
    /\ \E o \in Outcomes :
          ClientApply("get_notebook", o, get_notebook(client, Fresh, o))

do_create_notebook ==
    /\ CanConnect
    /\ \E o \in Outcomes :
          ClientApply("create_notebook", o, create_notebook(client, Fresh, o))

do_rename_notebook ==
    /\ CanConnect
    /\ \E o \in Outcomes :
          ClientApply("rename_notebook", o, rename_notebook(client, Fresh, o))

do_configure_chat ==
    /\ CanConnect
    /\ \E goal \in {"default", "custom", Bogus}, prompt_len \in {0, 1, CHAT_PROMPT_LIMIT + 1},
          response_length \in {"default", Bogus}, o \in Outcomes :
          ClientApply("configure_chat", o, configure_chat(client, Fresh, goal, prompt_len, response_length, o))

do_delete_notebook ==
    /\ CanConnect
    /\ \E o \in Outcomes :
          ClientApply("delete_notebook", o, delete_notebook(client, Fresh, o))

do_check_source_freshness ==
    /\ CanConnect
    /\ \E o \in Outcomes :
          ClientApply("check_source_freshness", o, check_source_freshness(client, Fresh, o))

do_sync_drive_source ==
    /\ CanConnect
    /\ \E o \in Outcomes :
          ClientApply("sync_drive_source", o, sync_drive_source(client, Fresh, o))

do_get_notebook_sources_with_types ==
    /\ CanConnect
    /\ \E o \in Outcomes :
       \E metas \in (IF o = "ok" THEN UNION {[1..n -> [doc : BOOLEAN, type : {0, 1, 2, 4, 9}]] :
                                                  n \in 0..MaxSources} ELSE {<<>>}) :
          LET m == get_notebook_sources_with_types(client, Fresh, o, Len(metas))
          IN  ClientApplyWith("get_notebook_sources_with_types",
                              [out |-> o, metas |-> metas,
                               sources |-> IF m.ret = "raise" THEN <<>>
                                           ELSE [i \in 1..Len(metas) |-> source_dict(metas[i])]],
                              m)

do_add_url_source ==
    /\ CanConnect
    /\ \E o \in Outcomes :
          ClientApply("add_url_source", o, add_url_source(client, Fresh, o))

do_add_text_source ==
    /\ CanConnect
    /\ \E o \in Outcomes :
          ClientApply("add_text_source", o, add_text_source(client, Fresh, o))

do_add_drive_source ==
    /\ CanConnect
    /\ \E o \in Outcomes :
          ClientApply("add_drive_source", o, add_drive_source(client, Fresh, o))

do_query ==
    /\ CanConnect
    /\ \E ids_given \in BOOLEAN, o2 \in Outcomes :
       \E o1 \in OutIf(~ids_given) :
       \* held: the source ids the notebook holds; given: the caller's list
       \E held \in (IF ~ids_given /\ o1 = "ok" THEN SUBSET (1..MaxSources) ELSE {{}}),
          given \in (IF ids_given THEN {{1}} ELSE {{}}) :
          LET m == query(client, Fresh, ids_given, o1, o2)
          IN  ClientApplyWith("query",
                              [out |-> o2, ids_given |-> ids_given, o1 |-> o1, held |-> held,
                               sent |-> query_source_ids(ids_given, given,
                                                         get_notebook(client, Fresh, o1).ret)],
                              m)

do_start_research ==
    /\ CanConnect
    /\ \E source \in ResearchSources \cup {Bogus}, mode \in ResearchModes \cup {Bogus},
          o \in Outcomes :
          ClientApply("start_research", o, start_research(client, Fresh, source, mode, o))

do_poll_research ==
    /\ CanConnect
    /\ \E o \in Outcomes :
       \E code \in (IF o = "ok" THEN PollCodes ELSE {0}),
          n \in (IF o = "ok" THEN 0..MaxSources ELSE {0}) :
       \* the codes of the task's other enumerated fields, varied one at a time
       \E codes \in (IF o # "ok" THEN {<<0, 0, 0>>}
                     ELSE {<<x, 1, 1>> : x \in {0, 1, 2, 9}}
                          \cup {<<1, x, 1>> : x \in {0, 5, 9}}
                          \cup {<<1, 1, x>> : x \in IF n > 0 THEN {0, 8, 9} ELSE {}}) :
          LET p == poll_research(client, Fresh, o, code, n)
          IN  ClientApplyWith("poll_research",
                              [out |-> o, code |-> code, snap |-> p.snap, codes |-> codes,
                               enums |-> research_task_enums(codes[1], codes[2], codes[3])],
                              p)

do_import_research_sources ==
    /\ CanConnect
    /\ \E n \in 0..MaxSources, o \in Outcomes :
          ClientApply("import_research_sources", o, import_research_sources(client, Fresh, n, o))

do_create_audio_overview ==
    /\ CanConnect
    /\ \E o \in Outcomes :
          ClientApply("create_audio_overview", o, create_audio_overview(client, Fresh, o))

do_create_video_overview ==
    /\ CanConnect
    /\ \E o \in Outcomes :
          ClientApply("create_video_overview", o, create_video_overview(client, Fresh, o))

do_poll_studio_status ==
    /\ CanConnect
    /\ \E o \in Outcomes :
       \E type_code \in (IF o = "ok" THEN StudioCodes ELSE {STUDIO_TYPE_AUDIO}),
          status_code \in (IF o = "ok" THEN StudioCodes ELSE {1}) :
          LET m == poll_studio_status(client, Fresh, o, type_code, status_code)
          IN  ClientApplyWith("poll_studio_status",
                              [out |-> o, type_code |-> type_code, status_code |-> status_code,
                               artifacts |-> m.artifacts], m)

do_delete_studio_artifact ==
    /\ CanConnect
    /\ \E o \in Outcomes :
          ClientApply("delete_studio_artifact", o, delete_studio_artifact(client, Fresh, o))

\* close(): the connection is closed and dropped.
do_close ==
    /\ last' = [tool |-> "close", confirm |-> TRUE, valid |-> TRUE, pre |-> client,
                page |-> "none", status |-> "none", reqs |-> <<>>, fetched |-> FALSE, data |-> NoData]
    /\ client' = close(client)
    /\ open' = open \ {client.http}
    /\ UNCHANGED <<env, cache, nconn, pc, rs>>

ClientNext ==
    \/ do_list_notebooks
    \/ do_get_notebook
    \/ do_create_notebook
    \/ do_rename_notebook
    \/ do_configure_chat
    \/ do_delete_notebook
    \/ do_check_source_freshness
    \/ do_sync_drive_source
    \/ do_get_notebook_sources_with_types
    \/ do_add_url_source
    \/ do_add_text_source
    \/ do_add_drive_source
    \/ do_query
    \/ do_start_research
    \/ do_poll_research
    \/ do_import_research_sources
    \/ do_create_audio_overview
    \/ do_create_video_overview
    \/ do_poll_studio_status
    \/ do_delete_studio_artifact
    \/ do_close

ClientSpec == ClientInit /\ [][ClientNext]_vars

\* ======================================================= the codec
\* CodecSpec: _parse_response and _extract_rpc_result applied to bounded
\* inputs.  last is the record of the call: its input and its value.
MaxLines == 3
MaxChunks == 2
MaxItems == 1

\* A line of a response text, by what int() and json.loads() make of it:
\*   prefix      the anti-XSSI prefix )]}'
\*   blank       an empty line
\*   count       an integer (int() accepts it, json.loads() reads a number)
\*   json        a JSON value that is not an integer; value names it
\*   bad         not JSON: json.loads() raises JSONDecodeError
\*   unloadable  json.loads() raises another exception: RecursionError for
\*               nesting beyond the recursion limit, ValueError for an
\*               integer beyond the digit limit (int() raises ValueError too)
Lines ==
    {[kind |-> k, value |-> ""] : k \in {"prefix", "blank", "bad", "unloadable"}}
    \cup {[kind |-> "count", value |-> "N"]}
    \cup {[kind |-> "json", value |-> v] : v \in {"A", "B"}}

\* if response_text.startswith(")]}'"): response_text = response_text[4:]
strip_prefix(text) ==
    IF text # <<>> /\ text[1].kind = "prefix" THEN Tail(text) ELSE text

\* json.loads(line)
json_loads(line) ==
    CASE line.kind \in {"json", "count"} -> [exc |-> "", value |-> line.value]
      [] line.kind = "unloadable" -> [exc |-> "other", value |-> ""]
      [] OTHER -> [exc |-> "JSONDecodeError", value |-> ""]

\* The byte-count test mutated: no line is taken for a byte count.
is_byte_count_never(line) == FALSE

\* byte_count = int(line) succeeds
is_byte_count(line) == line.kind = "count"

\* The while loop of _parse_response from line i on: the values appended to
\* results, or exc when an exception other than JSONDecodeError and
\* ValueError-of-int leaves the function.
RECURSIVE parse_lines(_, _)
parse_lines(lines, i) ==
    IF i > Len(lines) THEN [exc |-> FALSE, results |-> <<>>]
    ELSE IF lines[i].kind = "blank" THEN parse_lines(lines, i + 1)
    ELSE IF is_byte_count(lines[i])
         THEN IF i + 1 > Len(lines) THEN [exc |-> FALSE, results |-> <<>>]
              ELSE LET d == json_loads(lines[i + 1])
                       rest == parse_lines(lines, i + 2)
                   IN  IF d.exc = "other" THEN [exc |-> TRUE, results |-> <<>>]
                       ELSE IF d.exc = "" THEN [rest EXCEPT !.results = <<d.value>> \o @]
                       ELSE rest
    ELSE LET d == json_loads(lines[i])
             rest == parse_lines(lines, i + 1)
         IN  IF d.exc = "other" THEN [exc |-> TRUE, results |-> <<>>]
             ELSE IF d.exc = "" THEN [rest EXCEPT !.results = <<d.value>> \o @]
             ELSE rest

_parse_response(response_text) == parse_lines(strip_prefix(response_text), 1)

\* An item of a chunk: whether it is a list, its length, its first two
\* elements (when it has them) and what its third element is: a string that
\* holds JSON ("json"), another string ("text") or null ("null").
WRB == "wrb.fr"
Items ==
    {[list |-> FALSE, len |-> 0, m |-> "", id |-> "", payload |-> ""],
     [list |-> TRUE, len |-> 1, m |-> WRB, id |-> "", payload |-> ""]}
    \cup {[list |-> TRUE, len |-> 3, m |-> WRB, id |-> RPC.GET_NOTEBOOK, payload |-> "json"],
          [list |-> TRUE, len |-> 3, m |-> "di", id |-> RPC.LIST_NOTEBOOKS, payload |-> "json"]}
    \cup {[list |-> TRUE, len |-> 3, m |-> WRB, id |-> RPC.LIST_NOTEBOOKS, payload |-> q] :
             q \in {"json", "text", "null"}}
\* A chunk: a list of items, or a value that is not a list.
Chunks ==
    {[list |-> FALSE, items |-> <<>>]}
    \cup {[list |-> TRUE, items |-> it] : it \in UNION {[1..k -> Items] : k \in 0..MaxItems}}

\* The item test mutated: the item is indexed without the guard.
item_matches_unguarded(item, rpc_id) ==
    IF ~item.list \/ item.len < 2 THEN "raise"
    ELSE IF item.m = WRB /\ item.id = rpc_id THEN "yes" ELSE "no"

\* isinstance(item, list) and len(item) >= 3, then
\* item[0] == "wrb.fr" and item[1] == rpc_id
item_matches(item, rpc_id) ==
    IF ~item.list \/ item.len < 3 THEN "no"
    ELSE IF item.m = WRB /\ item.id = rpc_id THEN "yes" ELSE "no"

\* What is returned for a matching item: the decoded string, the string
\* itself when it is not JSON, or the element as it is.
item_result(item) ==
    CASE item.payload = "json" -> "value"
      [] item.payload = "text" -> "string"
      [] OTHER -> "none"

\* The inner loop, from item j of a chunk on: "" when no item matches.
RECURSIVE scan_items(_, _, _)
scan_items(items, j, rpc_id) ==
    IF j > Len(items) THEN ""
    ELSE LET t == item_matches(items[j], rpc_id)
         IN  IF t = "raise" THEN "raise"
             ELSE IF t = "yes" THEN item_result(items[j])
             ELSE scan_items(items, j + 1, rpc_id)

\* The outer loop, from chunk i on; a chunk that is not a list is passed over.
RECURSIVE scan_chunks(_, _, _)
scan_chunks(parsed_response, i, rpc_id) ==
    IF i > Len(parsed_response) THEN "none"
    ELSE LET r == IF parsed_response[i].list
                  THEN scan_items(parsed_response[i].items, 1, rpc_id) ELSE ""
         IN  IF r = "" THEN scan_chunks(parsed_response, i + 1, rpc_id) ELSE r

_extract_rpc_result(parsed_response, rpc_id) == scan_chunks(parsed_response, 1, rpc_id)

\* The response text made of the prefix and, per chunk, a byte-count line
\* and the chunk's JSON on one line.
RECURSIVE Fixture(_)
Fixture(chunks) ==
    IF chunks = <<>> THEN <<[kind |-> "prefix", value |-> ""]>>
    ELSE Fixture(SubSeq(chunks, 1, Len(chunks) - 1))
         \o <<[kind |-> "count", value |-> "N"], [kind |-> "json", value |-> chunks[Len(chunks)]]>>

\* The record of a codec call.
CodecCall(name, status, data) ==
    [tool |-> name, confirm |-> TRUE, valid |-> TRUE, pre |-> client, page |-> "none",
     status |-> status, reqs |-> <<>>, fetched |-> FALSE, data |-> data]

CodecInit ==
    /\ env = [cookies |-> "env", csrf |-> "env"]
    /\ cache = NoTokens
    /\ client = NoClient
    /\ nconn = 0
    /\ open = {}
    /\ pc = "idle"
    /\ rs = rs0
    /\ last = NoCall

do_parse_response ==
    /\ pc = "idle"
    /\ \E text \in UNION {[1..k -> Lines] : k \in 0..MaxLines} :
          LET r == _parse_response(text)
          IN  last' = CodecCall("_parse_response", IF r.exc THEN "raise" ELSE "returned",
                                [text |-> text, results |-> r.results])
    /\ pc' = "done"
    /\ UNCHANGED <<env, cache, client, nconn, open, rs>>

\* _parse_response applied to the fixture built from a chunk sequence.
do_decode_fixture ==
    /\ pc = "idle"
    /\ \E chunks \in UNION {[1..k -> {"A", "B"}] : k \in 0..MaxChunks} :
          LET r == _parse_response(Fixture(chunks))
          IN  last' = CodecCall("decode_fixture", IF r.exc THEN "raise" ELSE "returned",
                                [chunks |-> chunks, results |-> r.results])
    /\ pc' = "done"
    /\ UNCHANGED <<env, cache, client, nconn, open, rs>>

do_extract_rpc_result ==
    /\ pc = "idle"
    /\ \E parsed_response \in UNION {[1..k -> Chunks] : k \in 0..MaxChunks} :
          last' = CodecCall("_extract_rpc_result",
                            _extract_rpc_result(parsed_response, RPC.LIST_NOTEBOOKS),
                            [parsed_response |-> parsed_response, rpc_id |-> RPC.LIST_NOTEBOOKS])
    /\ pc' = "done"
    /\ UNCHANGED <<env, cache, client, nconn, open, rs>>

\* The value goes back to the caller.
codec_return ==
    /\ pc = "done"
    /\ pc' = "idle"
    /\ last' = NoCall
    /\ UNCHANGED <<env, cache, client, nconn, open, rs>>

CodecNext ==
    \/ do_parse_response
    \/ do_decode_fixture
    \/ do_extract_rpc_result
    \/ codec_return

CodecSpec == CodecInit /\ [][CodecNext]_vars

\* ----------------------------------------------------------- the poller
\* A research_status call that obtained the client.
InResearchStatus == last.tool = "research_status" /\ pc \in {"poll", "sleep", "done"} /\ client.set

\* research_status has returned after at least one poll.
Returned == InResearchStatus /\ pc = "done" /\ rs.polls > 0

\* C1: research_status called with max_wait = 0 makes exactly one
\* poll_research call and returns without sleeping, whatever the poll reports:
\* such a call never reaches the sleep, has made no poll while it runs and
\* exactly one request, the poll, when it has returned.
C1_single_poll ==
    (InResearchStatus /\ rs.max_wait = 0) =>
        /\ pc # "sleep"
        /\ rs.sleeps = 0
        /\ pc = "poll" => rs.polls = 0
        /\ pc = "done" => /\ rs.polls = 1
                          /\ Len(last.reqs) = 1
                          /\ last.reqs[1].rpc = RPC.POLL_RESEARCH

\* A call with max_wait = 0 and a sleep interval returned on a task in progress.
C1_witness ==
    /\ Returned
    /\ rs.max_wait = 0
    /\ rs.poll_interval > 0
    /\ last.status = "success"
    /\ last.data.status = "in_progress"

\* C2: when the task is in progress on polls 1..k-1 and completed on poll k,
\* research_status returns right after poll k with research status
\* completed and polls_made = k, after k-1 sleeps and k requests, and polls
\* no more: a poll that reports completed is the last one of the call.
C2_completed_on_poll_k ==
    InResearchStatus =>
        \A i \in 1..Len(rs.log) :
            rs.log[i] = "completed" =>
                /\ i = Len(rs.log)
                /\ \A j \in 1..(i - 1) : rs.log[j] = "in_progress"
                /\ pc = "done"
                /\ last.status = "success"
                /\ last.data.status = "completed"
                /\ last.data.polls_made = i
                /\ rs.polls = i
                /\ rs.sleeps = i - 1
                /\ Len(last.reqs) = i

\* Completed on the second poll, after one sleep, with wait time left.
C2_witness ==
    /\ Returned
    /\ Len(rs.log) = 2
    /\ rs.log[2] = "completed"
    /\ rs.poll_interval > 0
    /\ rs.elapsed < rs.max_wait

\* C3: when the maximum wait is exhausted while the task is in progress,
\* research_status returns the snapshot of the last poll (status
\* in_progress) with polls_made equal to the polls issued and the elapsed
\* wait time.
C3_exhausted_snapshot ==
    (Returned /\ last.status = "success" /\ rs.result.status = "in_progress") =>
        /\ rs.elapsed >= rs.max_wait
        /\ last.data.status = "in_progress"
        /\ last.data.n = rs.result.n
        /\ last.data.polls_made = rs.polls
        /\ rs.polls = Len(rs.log)
        /\ Len(last.reqs) = rs.polls
        /\ last.data.wait_time_seconds = rs.elapsed

\* A positive max_wait ran out after a sleep and a second poll.
C3_witness ==
    /\ Returned
    /\ last.status = "success"
    /\ rs.result.status = "in_progress"
    /\ rs.max_wait > 0
    /\ rs.sleeps > 0
    /\ rs.polls > 1

\* C4: the total time research_status sleeps between polls never exceeds
\* max_wait.
C4_sleep_within_max_wait == InResearchStatus => rs.slept <= rs.max_wait

\* C5: when the last poll could not reach the transport or its response
\* carried no result for the poll operation, research_status has returned
\* status error after that poll.
C5_failed_poll_is_error ==
    (InResearchStatus /\ rs.polls > 0
        /\ rs.log[Len(rs.log)] \in TransportErrors \cup {"no_triplet"}) =>
        /\ pc = "done"
        /\ last.status = "error"

\* ------------------------------------------------------------ the tools
\* C6: a call of a tool with a confirm flag, made with confirm false,
\* returns error or pending_confirmation, has sent no request and fetched
\* no page, and leaves the process-wide client as it was.
C6_unconfirmed_is_inert ==
    (pc = "done" /\ ~last.confirm
        /\ last.tool \in {"notebook_delete", "source_sync_drive", "studio_delete",
                          "audio_overview_create", "video_overview_create",
                          "infographic_create", "slide_deck_create"}) =>
        /\ last.status \in {"error", "pending_confirmation"}
        /\ last.reqs = <<>>
        /\ ~last.fetched
        /\ client = last.pre

\* An unconfirmed notebook_delete in a process that has credentials and no
\* client yet.
C6_witness ==
    /\ pc = "done"
    /\ last.tool = "notebook_delete"
    /\ ~last.confirm
    /\ env.cookies # ""
    /\ ~client.set

\* C7: a call of research_start, chat_configure or a generation tool with
\* an option string that is not recognized returns error and has sent no
\* request.
C7_invalid_option_sends_nothing ==
    (pc = "done" /\ ~last.valid
        /\ last.tool \in {"research_start", "chat_configure", "audio_overview_create",
                          "video_overview_create", "infographic_create", "slide_deck_create"}) =>
        /\ last.status \in {"error", "pending_confirmation"}
        /\ last.reqs = <<>>

\* C8: every finished tool call has a status of success, error, partial or
\* pending_confirmation.
C8_status_is_tagged ==
    pc = "done" => last.status \in {"success", "error", "partial", "pending_confirmation"}

\* A transport failure inside notebook_list came back as an error result.
C8_witness ==
    /\ pc = "done"
    /\ last.tool = "notebook_list"
    /\ Len(last.reqs) = 1
    /\ last.status = "error"

\* ------------------------------------------------------ one client object
\* C9: on one client object no connection exists before the first
\* operation; an operation that sends requests sends them all through the
\* connection the object holds, which is the one held before when there was
\* one and a new one otherwise; after close() none is held and none is open.
C9_connection_lifecycle ==
    /\ open = (IF client.http = 0 THEN {} ELSE {client.http})
    /\ last.tool = "none" => client.http = 0 /\ nconn = 0
    /\ last.tool = "close" => client.http = 0
    /\ last.tool \notin {"none", "close"} =>
          /\ \A i \in 1..Len(last.reqs) : last.reqs[i].conn = client.http
          /\ last.pre.http # 0 => client.http = last.pre.http
          /\ (last.pre.http = 0 /\ client.http # 0) => client.http = nconn

\* An operation after a close() went through a second connection.
C9_witness ==
    /\ last.tool = "list_notebooks"
    /\ last.pre.http = 0
    /\ Len(last.reqs) = 1
    /\ last.reqs[1].conn = 2

\* C10: a call of a creating, renaming, deleting or generating operation
\* has sent exactly one request, the one of its operation, whatever came
\* back.
C10_one_request_per_call ==
    LET rpc == [create_notebook |-> RPC.CREATE_NOTEBOOK,
                rename_notebook |-> RPC.RENAME_NOTEBOOK,
                delete_notebook |-> RPC.DELETE_NOTEBOOK,
                add_url_source |-> RPC.ADD_SOURCE,
                add_text_source |-> RPC.ADD_SOURCE,
                add_drive_source |-> RPC.ADD_SOURCE,
                sync_drive_source |-> RPC.SYNC_DRIVE,
                create_audio_overview |-> RPC.CREATE_STUDIO,
                create_video_overview |-> RPC.CREATE_STUDIO,
                delete_studio_artifact |-> RPC.DELETE_STUDIO]
    IN  last.tool \in DOMAIN rpc =>
            /\ Len(last.reqs) = 1
            /\ last.reqs[1].rpc = rpc[last.tool]

\* create_notebook met a transport error.
C10_witness ==
    /\ last.tool = "create_notebook"
    /\ last.status = "raise"
    /\ Len(last.reqs) = 1

\* C11: when the response holds no triplet for the operation called, the
\* method returns its failure indicator and does not raise: None, False or
\* an empty list according to the method.
C11_no_triplet_indicator ==
    LET indicator == [create_notebook |-> "none", add_url_source |-> "none",
                      add_text_source |-> "none", add_drive_source |-> "none",
                      sync_drive_source |-> "none", check_source_freshness |-> "none",
                      start_research |-> "none", create_audio_overview |-> "none",
                      create_video_overview |-> "none", rename_notebook |-> "false",
                      delete_notebook |-> "false", delete_studio_artifact |-> "false",
                      list_notebooks |-> "empty", poll_studio_status |-> "empty"]
    IN  (last.tool \in DOMAIN indicator /\ last.reqs # <<>> /\ last.data.out = "no_triplet") =>
            last.status = indicator[last.tool]

\* start_research sent its request and the response held no triplet for it.
C11_witness ==
    /\ last.tool = "start_research"
    /\ last.reqs # <<>>
    /\ last.data.out = "no_triplet"
    /\ last.status = "none"

\* C12: when the landing-page fetch made while building the client is
\* redirected to the login domain, the tool call returns an error that asks
\* for re-authentication, has sent no request, has fetched the page once,
\* and leaves the process-wide client unset.
C12_expired_cookies ==
    (pc = "done" /\ last.page = "login_redirect") =>
        /\ last.status = "error"
        /\ last.data.error = "cookies_expired"
        /\ last.data.pages = <<"login_redirect">>
        /\ last.reqs = <<>>
        /\ ~client.set

\* notebook_list met the redirect while building the client from cached cookies.
C12_witness ==
    /\ pc = "done"
    /\ last.tool = "notebook_list"
    /\ last.page = "login_redirect"
    /\ env.cookies = ""
    /\ cache.set

\* C13: research_import sends the import request only as its second
\* request, after a poll that reported a completed task with at least one
\* source, and with every requested index in range; when the poll reports
\* anything else or an index is out of range it returns error and sends no
\* import request.
C13_import_only_when_ready ==
    (pc = "done" /\ last.tool = "research_import") =>
        LET d == last.data
            imports == {i \in 1..Len(last.reqs) : last.reqs[i].rpc = RPC.IMPORT_RESEARCH}
            ready == d.o1 = "ok" /\ d.code = 2 /\ d.n > 0 /\ d.idx # "invalid"
        IN  /\ imports # {} => /\ ready
                               /\ imports = {2}
                               /\ last.reqs[1].rpc = RPC.POLL_RESEARCH
            /\ ~ready => /\ last.status = "error"
                         /\ imports = {}

\* The import request went out after a completed poll with sources.
C13_witness ==
    /\ pc = "done"
    /\ last.tool = "research_import"
    /\ last.status = "success"
    /\ Len(last.reqs) = 2
    /\ last.data.idx = "valid"

\* C14: studio_status polls like research_status: a call that returns
\* while an artifact is still in progress has waited for it, that is, it
\* has polled more than once.
C14_studio_poller_waits ==
    (pc = "done" /\ last.tool = "studio_status" /\ last.status = "success"
        /\ last.data.in_progress > 0) =>
        Len(last.reqs) > 1

\* ------------------------------------------------------------- the codec
\* C15: _parse_response returns for every input text: no exception leaves it.
C15_parse_never_raises ==
    last.tool = "_parse_response" => last.status = "returned"

C17_no_triplet_is_none ==
    (last.tool = "_extract_rpc_result"
        /\ \A i \in 1..Len(last.data.parsed_response) :
              \A j \in 1..Len(last.data.parsed_response[i].items) :
                 LET item == last.data.parsed_response[i].items[j]
                 IN  ~(item.list /\ item.len >= 2 /\ item.m = WRB /\ item.id = last.data.rpc_id)) =>
        last.status = "none"

\* None came back for a chunk that is not a list followed by a chunk whose
\* only item is too short.
C17_witness ==
    /\ last.tool = "_extract_rpc_result"
    /\ last.status = "none"
    /\ Len(last.data.parsed_response) = 2
    /\ ~last.data.parsed_response[1].list
    /\ Len(last.data.parsed_response[2].items) = 1
    /\ last.data.parsed_response[2].items[1].len = 1

\* C18: every source record get_notebook_sources_with_types returns has
\* can_sync true exactly when it has a drive_doc_id and its type code is 1
\* or 2; so can_sync implies a drive_doc_id.
C18_can_sync ==
    last.tool = "get_notebook_sources_with_types" =>
        \A i \in 1..Len(last.data.sources) :
            LET src == last.data.sources[i]
            IN  /\ src.can_sync <=> (src.drive_doc_id # "None" /\ src.source_type \in {1, 2})
                /\ src.can_sync => src.drive_doc_id # "None"
                /\ src.drive_doc_id # "None" <=> last.data.metas[i].doc
                /\ src.source_type = last.data.metas[i].type

\* A source with a document id and the type of pasted text came back as not
\* syncable.
C18_witness ==
    /\ last.tool = "get_notebook_sources_with_types"
    /\ Len(last.data.sources) = 1
    /\ last.data.metas[1].doc
    /\ last.data.metas[1].type = 4
    /\ ~last.data.sources[1].can_sync

\* C19: poll_research gives a decoded task the status completed when its
\* status code is 2 and in_progress for every other code, an absent one
\* included.
C19_research_status_codes ==
    (last.tool = "poll_research" /\ last.data.out = "ok" /\ last.status # "raise") =>
        /\ last.data.code = 2 => last.data.snap.status = "completed"
        /\ last.data.code # 2 => last.data.snap.status = "in_progress"

\* A task with no status code was reported as in progress.
C19_witness ==
    /\ last.tool = "poll_research"
    /\ last.data.out = "ok"
    /\ last.data.code = 0
    /\ last.data.snap.status = "in_progress"

\* C20: poll_studio_status gives an artifact whose type code is neither 1
\* nor 3 the type unknown and one whose status code is neither 1 nor 3 the
\* status unknown, lists the artifact all the same and does not raise.
C20_unknown_codes ==
    (last.tool = "poll_studio_status" /\ last.data.out = "ok") =>
        /\ last.status = "value"
        /\ Len(last.data.artifacts) = 1
        /\ last.data.type_code \notin {1, 3} => last.data.artifacts[1].type = "unknown"
        /\ last.data.status_code \notin {1, 3} => last.data.artifacts[1].status = "unknown"

\* An artifact with type code 9 and status code 9 was listed as unknown.
C20_witness ==
    /\ last.tool = "poll_studio_status"
    /\ last.data.out = "ok"
    /\ last.data.type_code = 9
    /\ last.data.status_code = 9
    /\ last.data.artifacts = <<[type |-> "unknown", status |-> "unknown"]>>

\* C21: every enumerated code the mappers decode (source type, research
\* result kind, research source domain, research depth, studio kind, studio
\* status) is mapped to an explicit unknown value when it is absent or
\* outside the known set.
C21_unknown_codes_are_unknown ==
    /\ last.tool = "get_notebook_sources_with_types" =>
          \A i \in 1..Len(last.data.sources) :
             last.data.sources[i].source_type \notin {1, 2, 4} =>
                last.data.sources[i].source_type_name = "unknown"
    /\ (last.tool = "poll_studio_status" /\ last.data.out = "ok") =>
          /\ last.data.type_code \notin {1, 3} => last.data.artifacts[1].type = "unknown"
          /\ last.data.status_code \notin {1, 3} => last.data.artifacts[1].status = "unknown"
    /\ (last.tool = "poll_research" /\ last.data.out = "ok" /\ last.status # "raise") =>
          /\ last.data.codes[1] \notin {1, 2} => last.data.enums.source_type = "unknown"
          /\ last.data.codes[2] \notin {1, 5} => last.data.enums.mode = "unknown"
          /\ (last.data.snap.n > 0 /\ last.data.codes[3] \notin {1, 2, 3, 5, 8}) =>
                last.data.enums.result_type_name = "unknown"

\* C22: whatever the shape of the extracted result (a short array, an empty
\* inner array, a source entry with no title slot), add_url_source,
\* add_text_source, add_drive_source and sync_drive_source return a record
\* or None and do not raise.
C22_short_results_do_not_raise ==
    (/\ last.tool \in {"add_url_source", "add_text_source", "add_drive_source",
                       "sync_drive_source"}
     /\ last.data.out \notin TransportErrors) =>
        last.status \in {"none", "value"}

\* C23: infographic_create and slide_deck_create called with confirm true,
\* recognized options and a non-empty source list send one generation
\* request and return success.
C23_infographic_and_slides_generate ==
    (/\ pc = "done"
     /\ last.tool \in {"infographic_create", "slide_deck_create"}
     /\ last.confirm /\ last.valid
     /\ client.set
     /\ last.data.src = "given") =>
        /\ last.status = "success"
        /\ Len(last.reqs) = 1
        /\ last.reqs[1].rpc = RPC.CREATE_STUDIO

\* C24: query called without source_ids sends, in its streaming request,
\* exactly the source ids the notebook holds at that moment.
C24_query_all_sources ==
    (/\ last.tool = "query"
     /\ ~last.data.ids_given
     /\ last.data.o1 = "ok"
     /\ Len(last.reqs) = 2
     /\ last.reqs[2].rpc = QUERY_ENDPOINT) =>
        last.data.sent = last.data.held

\* C25: once save_auth_tokens has succeeded, the next tool call builds a
\* client that authenticates with the cookies just saved, whatever the
\* environment variables and the cache held; when save_auth_tokens fails on
\* missing required cookies the existing client is kept.
C25_saved_cookies_are_used ==
    /\ (/\ pc = "done"
        /\ last.tool # "save_auth_tokens"
        /\ ~last.pre.set
        /\ client.set
        /\ cache.set /\ cache.cookies = "saved") =>
          client.cookies = "saved"
    /\ (pc = "done" /\ last.tool = "save_auth_tokens" /\ last.status = "error") =>
          client = last.pre

\* C26: with poll_interval >= 1, research_status makes at most
\* ceil(max_wait / poll_interval) + 1 polls: while it is in the loop it has
\* made fewer, so the loop ends; when every poll reported in_progress it
\* returns success with the in-progress snapshot.
C26_polls_are_bounded ==
    (InResearchStatus /\ rs.poll_interval >= 1) =>
        LET most == ((rs.max_wait + rs.poll_interval - 1) \div rs.poll_interval) + 1
        IN  /\ rs.polls <= most
            /\ pc \in {"poll", "sleep"} => rs.polls < most
            /\ (Returned /\ \A i \in 1..Len(rs.log) : rs.log[i] = "in_progress") =>
                  /\ last.status = "success"
                  /\ last.data.status = "in_progress"
                  /\ last.data.polls_made = rs.polls

\* With max_wait 2 and poll_interval 1 the third poll was still in progress
\* and the call returned.
C26_witness ==
    /\ Returned
    /\ rs.poll_interval = 1
    /\ rs.max_wait = 2
    /\ rs.polls = 3
    /\ rs.log = <<"in_progress", "in_progress", "in_progress">>
    /\ last.status = "success"

\* C27: over any sequence of tool calls and save_auth_tokens calls at most
\* one transport connection is open, and an open connection is the one the
\* process-wide client holds.
C27_one_open_connection ==
    /\ Cardinality(open) <= 1
    /\ \A h \in open : client.set /\ client.http = h

\* C28: the sources research_import sends in its import request were
\* discovered by the research task whose id is the task_id argument, also
\* when the poll response lists several tasks.
C28_import_from_named_task ==
    (/\ pc = "done"
     /\ last.tool = "research_import"
     /\ \E i \in 1..Len(last.reqs) : last.reqs[i].rpc = RPC.IMPORT_RESEARCH) =>
        last.data.discovered_by = last.data.task_id

\* C29: source_sync_drive with confirm true and a non-empty id list, once
\* it has its client, sends one sync request per id and goes on after a
\* failed or raising sync; results holds one entry per id in list order,
\* synced + failed = total = the number of ids, and the status is success
\* when failed = 0 and partial otherwise.
C29_one_sync_per_id ==
    (/\ pc = "done"
     /\ last.tool = "source_sync_drive"
     /\ last.confirm
     /\ last.data.k > 0
     /\ client.set) =>
        LET d == last.data
        IN  /\ last.status \in {"success", "partial"}
            /\ Len(last.reqs) = d.k
            /\ \A i \in 1..d.k : last.reqs[i].rpc = RPC.SYNC_DRIVE
            /\ Len(d.results) = d.k
            /\ \A i \in 1..d.k :
                  /\ d.results[i].source_id = i
                  /\ d.results[i].status = (IF d.outs[i] = "ok" THEN "synced" ELSE "failed")
            /\ d.total = d.k
            /\ d.synced + d.failed = d.total
            /\ d.failed = Cardinality({i \in 1..d.k : d.results[i].status = "failed"})
            /\ last.status = "success" <=> d.failed = 0

\* The first of two syncs raised and the second went through.
C29_witness ==
    /\ pc = "done"
    /\ last.tool = "source_sync_drive"
    /\ last.status = "partial"
    /\ last.data.k = 2
    /\ last.data.outs = <<"conn_error", "ok">>
    /\ Len(last.reqs) = 2
    /\ last.data.results[2].status = "synced"

\* C30: audio_overview_create and video_overview_create send no generation
\* request with an empty source list: when source_ids is empty, or is
\* omitted and the notebook yields no source with an id, they return error
\* and the generation request is not sent.
C30_no_generation_without_sources ==
    (pc = "done" /\ last.tool \in {"audio_overview_create", "video_overview_create"}) =>
        LET d == last.data
            sent == \E i \in 1..Len(last.reqs) : last.reqs[i].rpc = RPC.CREATE_STUDIO
            none == \/ d.src = "empty"
                    \/ /\ d.src = "omitted"
                       /\ d.o1 # "ok" \/ \A i \in 1..Len(d.ids) : ~d.ids[i]
        IN  /\ none => ~sent
            /\ (none /\ last.confirm) => last.status = "error"

\* The notebook was read and its only source had no id: error, and the one
\* request sent is the read.
C30_witness ==
    /\ pc = "done"
    /\ last.tool = "audio_overview_create"
    /\ last.confirm /\ last.valid
    /\ last.data.src = "omitted"
    /\ last.data.o1 = "ok"
    /\ last.data.ids = <<FALSE>>
    /\ last.status = "error"
    /\ Len(last.reqs) = 1
    /\ last.reqs[1].rpc = RPC.GET_NOTEBOOK
====
